---- MODULE Spec2Model ----
(***************************************************************************)
(* A model of the ML-Data-Wrangler repository: the ticket/comment          *)
(* wrangling pipeline in its two variants (classes.py, the synchronous     *)
(* DataWrangler.process, and wrangler.py, DataWrangler with its            *)
(* WranglerWorker.run_async) and the topic-count sweep (lda.py and         *)
(* LDA_logic.py).                                                          *)
(*                                                                         *)
(* Text is a sequence of tokens: a token is a word, or one of the          *)
(* whitespace characters " " and "\n".  File names are sequences of        *)
(* characters, so that str.startswith, str.split and int() are computed.   *)
(***************************************************************************)
EXTENDS Integers, Sequences, FiniteSets, TLC

\* ------------------------------------------------------------------ bounds
MaxTickets == 2
MaxRuns == 2
MaxStore == 4
MaxSweeps == 2
MaxTopics == 3
MaxTokens == 3
MaxCleansings == 2
MaxDays == 2
MaxWrites == 3

\* ------------------------------------------------------- generic helpers
Range(s) == {s[k] : k \in 1..Len(s)}

SeqsUpTo(S, n) == UNION {[1..k -> S] : k \in 0..n}

Perms(S) == {s \in [1..Cardinality(S) -> S] : \A a, b \in 1..Cardinality(S) : s[a] = s[b] => a = b}

RECURSIVE Flatten(_)
Flatten(ss) == IF ss = <<>> THEN <<>> ELSE Head(ss) \o Flatten(Tail(ss))

RECURSIVE SelectSeqBy(_, _)
SelectSeqBy(s, keep) ==
    IF s = <<>> THEN <<>>
    ELSE (IF Head(s) \in keep THEN <<Head(s)>> ELSE <<>>) \o SelectSeqBy(Tail(s), keep)

\* ------------------------------------------------------ python str helpers
Digits == <<"0", "1", "2", "3", "4", "5", "6", "7", "8", "9">>

DigitChar(d) == Digits[d + 1]

DigitValue(c) == CHOOSE d \in 0..9 : Digits[d + 1] = c

\* str(n) for a non-negative int
RECURSIVE IntToStr(_)
IntToStr(n) == IF n < 10 THEN <<DigitChar(n)>> ELSE IntToStr(n \div 10) \o <<DigitChar(n % 10)>>

\* int(s): defined on non-empty digit strings, ValueError otherwise
IsInt(s) == Len(s) > 0 /\ \A k \in 1..Len(s) : s[k] \in Range(Digits)

RECURSIVE ParseInt(_)
ParseInt(s) == IF Len(s) = 0 THEN 0 ELSE 10 * ParseInt(SubSeq(s, 1, Len(s) - 1)) + DigitValue(s[Len(s)])

\* s.startswith(p)
StartsWith(s, p) == Len(p) <= Len(s) /\ SubSeq(s, 1, Len(p)) = p

\* s.split(sep)[-1] : what follows the last sep
RECURSIVE AfterLast(_, _)
AfterLast(s, sep) ==
    IF \E k \in 1..Len(s) : s[k] = sep
    THEN AfterLast(SubSeq(s, (CHOOSE k \in 1..Len(s) : s[k] = sep) + 1, Len(s)), sep)
    ELSE s

\* s.split(sep)[0] : what precedes the first sep
BeforeFirst(s, sep) ==
    IF \E k \in 1..Len(s) : s[k] = sep
    THEN SubSeq(s, 1, (CHOOSE k \in 1..Len(s) : s[k] = sep /\ \A m \in 1..(k - 1) : s[m] # sep) - 1)
    ELSE s

\* " ".join(parts) on token sequences
Join(parts) ==
    LET joined[k \in 0..Len(parts)] ==
            IF k = 0 THEN <<>>
            ELSE IF k = 1 THEN parts[1]
            ELSE joined[k - 1] \o <<" ">> \o parts[k]
    IN joined[Len(parts)]


\* ---------------------------------------------------------- input universe
\* Timestamps as they occur in the input files; strptime accepts exactly the
\* ones in the fixed format %Y-%m-%dT%H:%M:%SZ.
GoodStamp == "2024-01-01T00:00:00Z"
BadStamp == "2024-01-01 00:00:00"

\* datetime.strptime(s, "%Y-%m-%dT%H:%M:%SZ"): ok, or ValueError
strptime(s) == IF s = GoodStamp THEN [ok |-> TRUE, value |-> <<2024, 1, 1, 0, 0, 0>>]
               ELSE [ok |-> FALSE, value |-> <<>>]

\* str.upper() on the status strings of the input universe
upper(s) == CASE s = "open" -> "OPEN"
              [] s = "Solved" -> "SOLVED"
              [] OTHER -> "BOGUS"

\* class TicketStatus(Enum): the member names and their values
TicketStatus == [OPEN |-> 1, HOLD |-> 2, PENDING |-> 3, SOLVED |-> 4, CLOSED |-> 5]

\* The ticket records a ticket file may hold: two well-formed ones, one with
\* a timestamp outside the fixed format, one with an unrecognized status.
Rec4 == [id |-> 4, created_at |-> GoodStamp, status |-> "open",
         description |-> <<"Hello", " ", "world">>]
Rec42 == [id |-> 42, created_at |-> GoodStamp, status |-> "Solved",
          description |-> <<"mail", " ", "user@example.com">>]
Rec4BadStamp == [id |-> 4, created_at |-> BadStamp, status |-> "open",
                 description |-> <<"Hello", " ", "world">>]
Rec42BadStatus == [id |-> 42, created_at |-> GoodStamp, status |-> "bogus",
                   description |-> <<"mail", " ", "user@example.com">>]

TicketRecords == {Rec4, Rec42, Rec4BadStamp, Rec42BadStatus}

\* The ticket file on disk: absent, or a JSON array of ticket records.
NoTicketFile == [exists |-> FALSE, data |-> <<>>]
TicketFiles == {NoTicketFile} \cup {[exists |-> TRUE, data |-> d] : d \in SeqsUpTo(TicketRecords, MaxTickets)}

\* File names of the comments directory.
Name4 == <<"4", ".", "j", "s", "o", "n">>
Name42 == <<"4", "2", ".", "j", "s", "o", "n">>
NameNotes == <<"n", "o", "t", "e", "s", ".", "j", "s", "o", "n">>

\* Comment records as they occur in comment files.
CRec(i, body) == [id |-> i, created_at |-> GoodStamp, has_body |-> TRUE, plain_body |-> body]
CRecNoBody(i) == [id |-> i, created_at |-> GoodStamp, has_body |-> FALSE, plain_body |-> <<>>]

\* Contents of a comment file: unparseable JSON, or an object with one key
\* (the file's stem) whose value is an array of comment records.
Parsed(name, recs) == [json_ok |-> TRUE, key |-> BeforeFirst(name, "."), value |-> recs]
Malformed == [json_ok |-> FALSE, key |-> <<>>, value |-> <<>>]

GoodContent(name) ==
    CASE name = Name4 -> Parsed(name, <<CRec(401, <<"first", "\n", "reply">>)>>)
      [] name = Name42 -> Parsed(name, <<CRec(421, <<"see", " ", "10.0.0.1">>), CRec(422, <<"thanks">>)>>)
      [] OTHER -> Parsed(name, <<CRec(901, <<"note">>)>>)

BadRecordContent(name) == Parsed(name, <<CRec(421, <<"see", " ", "10.0.0.1">>), CRecNoBody(422)>>)

\* 4.json is well-formed or unparseable, 42.json is well-formed or holds a
\* record that cannot be reshaped, notes.json is well-formed
FileVariants(name) ==
    CASE name = Name4 -> {[name |-> name, content |-> GoodContent(name)],
                          [name |-> name, content |-> Malformed]}
      [] name = Name42 -> {[name |-> name, content |-> GoodContent(name)],
                           [name |-> name, content |-> BadRecordContent(name)]}
      [] OTHER -> {[name |-> name, content |-> GoodContent(name)]}

\* A comments directory holds at most one file per name.
Directories ==
    {D \in SUBSET (FileVariants(Name4) \cup FileVariants(Name42) \cup FileVariants(NameNotes)) :
        \A f, g \in D : f.name = g.name => f = g}


\* ------------------------------------------------------------ text cleanser
Whitespace == {" ", "\n", "\r"}

\* html.unescape, on the words of the input universe
unescape(w) == CASE w = "&amp;lt;" -> "&lt;"
                 [] w = "&lt;" -> "<"
                 [] w = "user&#64;example.com" -> "user@example.com"
                 [] OTHER -> w

\* unicodedata.normalize("NFKC", w), on the words of the input universe
normalize(w) == CASE w = "<U+FB01>le" -> "file"
                  [] OTHER -> w

\* the validators package, on the words of the input universe
email(w) == w \in {"user@example.com"}
url(w) == w \in {"http://example.com/path"}
uuid(w) == w \in {"123e4567-e89b-12d3-a456-426614174000"}
md5(w) == w \in {"d41d8cd98f00b204e9800998ecf8427e"}
ipv4(w) == w \in {"10.0.0.1"}

\* str.split(): the words of a text, whitespace dropped
split(text) == LET IsWord(t) == t \notin Whitespace IN SelectSeq(text, IsWord)

MapWords(text) ==
    [k \in 1..Len(text) |-> IF text[k] \in Whitespace THEN text[k] ELSE normalize(unescape(text[k]))]

\* the filter without the IPv4 validator
scrubbed_keeps_ipv4(words) ==
    LET Kept(w) == ~(email(w) \/ url(w) \/ uuid(w) \/ md5(w)) IN SelectSeq(words, Kept)

scrubbed(words) ==
    LET Kept(w) == ~(email(w) \/ url(w) \/ uuid(w) \/ md5(w) \/ ipv4(w)) IN SelectSeq(words, Kept)

Singletons(words) == [k \in 1..Len(words) |-> <<words[k]>>]

\* WranglerWorker._cleanse
_cleanse(body_of_text) ==
    CHOOSE cleansed \in {Join(Singletons(scrubbed(split(MapWords(text))))) : text \in {body_of_text}} : TRUE


\* ------------------------------------------------------------------- state
VARIABLES
    ticket_file,        \* the ticket file on disk
    comments_files,     \* the files of the comments directory on disk
    impl,               \* which variant runs: "classes" (classes.py) or "wrangler" (wrangler.py)
    wrangled_tickets,   \* DataWrangler.wrangled_tickets, the Ticket Store
    corpus,             \* DataWrangler.corpus
    comments_dir,       \* wrangler.py DataWrangler.comments_dir: the file paths given by the caller
    written,            \* output files written during the current run
    pc,                 \* position of the calling thread in process / run_async
    ti,                 \* ticket loop index of the calling thread
    fi,                 \* file loop index of the calling thread
    filenames,          \* classes.py comments_bound: the os.listdir result in use
    grouped_comments,   \* classes.py create_corpous: the local list, unbound until a ticket is visited
    corpus_list,        \* wrangler.py create_corpus: the local list `corpus`
    task,               \* wrangler.py: the tasks submitted to WranglerWorker.executor
    stage,              \* per run: how far each of the three stages has got
    runs,               \* number of pipeline runs started on this DataWrangler
    history             \* what each finished run left behind

pipeline_vars == <<ticket_file, comments_files, impl, wrangled_tickets, corpus, comments_dir,
                   written, pc, ti, fi, filenames, grouped_comments, corpus_list, task,
                   stage, runs, history>>

VARIABLES
    lda_impl,           \* which sweep runs: "lda" (lda.py) or "LDA_logic" (LDA_logic.py)
    num_of_topics,      \* the topic count the caller requested
    worker_attrs,       \* LDA_logic.py: whether the LDAModelWorker was given the attributes its docstring lists
    topics,             \* the recorded topic counts
    coherence_values,   \* the recorded coherence scores
    landscape,          \* which coherence score the scorer gives each topic count
    spc,                \* position of the thread that runs the sweep
    si,                 \* loop index of the sweep thread
    executor,           \* LDA_logic.py: LDAModelWorker.executor, "open" or "shutdown"
    futures,            \* LDA_logic.py: the futures of the current sweep, by topic count
    callbacks,          \* LDA_logic.py: the callback invocations of the current sweep
    random_state,       \* the random_state of the latest get_lda_model call
    request,            \* LDA_logic.py: the last train_model request and what became of it
    completions,        \* LDA_logic.py: the topic counts of the current sweep, in the order their trainings ended
    sweeps,             \* number of sweeps started
    sweep_log           \* what each finished sweep left behind

sweep_vars == <<lda_impl, num_of_topics, worker_attrs, topics, coherence_values, landscape,
                spc, si, executor, futures, callbacks, random_state, request, completions, sweeps, sweep_log>>

VARIABLES
    raw_text,           \* the text handed to the Text Cleanser
    cleansings          \* _cleanse(raw_text), _cleanse(_cleanse(raw_text)), ... as far as computed

cleanse_vars == <<raw_text, cleansings>>

VARIABLES
    today,              \* the current date, as a day number
    filename_defaults,  \* wrangler.py: the default file names of the generate_*_json methods
    snapshot_log        \* the snapshot writes made so far: which file name, on which day

snapshot_vars == <<today, filename_defaults, snapshot_log>>

vars == <<pipeline_vars, sweep_vars, cleanse_vars, snapshot_vars>>

\* class Comment; type tells a Comment object from the dict of to_dict_format()
Comment(id, created_at, body) == [id |-> id, created_at |-> created_at, body |-> body, type |-> "Comment"]

to_dict_format(c) == [c EXCEPT !.type = "dict"]

\* class Ticket (the fields the pipeline reads), comments empty at construction
Ticket(id, created_at, status) == [id |-> id, created_at |-> created_at, status |-> status, comments |-> <<>>]

\* whether the Ticket(...) construction of tickets_reshaped / _reshape_ticket
\* succeeds on a record: both strptime calls and the TicketStatus lookup
TicketParses(ticket_data) ==
    /\ strptime(ticket_data.created_at).ok
    /\ upper(ticket_data.status) \in DOMAIN TicketStatus

\* classes.py: random.randint(9999, 9999999999), the placeholder id of the first
\* comment; two values of the range stand for the draw
PlaceholderIds == {9999, 10000}

\* classes.py tickets_reshaped, loop body: the Ticket with its first comment
ReshapedTicket(ticket, placeholder) ==
    [Ticket(ticket.id, strptime(ticket.created_at).value, TicketStatus[upper(ticket.status)])
        EXCEPT !.comments = <<Comment(placeholder, strptime(ticket.created_at).value, ticket.description)>>]

\* _reshape_ticket without `reshaped_ticket.comments.append(first_comment)`
_reshape_ticket_no_first_comment(ticket_data) ==
    Ticket(ticket_data.id, strptime(ticket_data.created_at).value, TicketStatus[upper(ticket_data.status)])

\* wrangler.py WranglerWorker._reshape_ticket
_reshape_ticket(ticket_data) ==
    [Ticket(ticket_data.id, strptime(ticket_data.created_at).value, TicketStatus[upper(ticket_data.status)])
        EXCEPT !.comments = <<Comment(ticket_data.id, strptime(ticket_data.created_at).value,
                                      ticket_data.description)>>]

\* classes.py DataWrangler.reshaped_comment: raises when a key is missing
reshaped_comment_ok(comment) == comment.has_body
reshaped_comment(comment) == Comment(comment.id, comment.created_at, comment.plain_body)

\* wrangler.py WranglerWorker._reshaped_comment: raises on a missing key or a bad timestamp
_reshaped_comment_ok(comment_data) == comment_data.has_body /\ strptime(comment_data.created_at).ok
_reshaped_comment(comment_data) ==
    Comment(comment_data.id, strptime(comment_data.created_at).value, _cleanse(comment_data.plain_body))

\* a list that puts the new item in front of the others
append_in_front(list, item) == <<item>> \o list

\* list.append(item): wrangled_tickets.append(reshaped_ticket)
append(list, item) == Append(list, item)

\* [comment["body"] for comment in comments]
RECURSIVE Bodies(_)
Bodies(comments) == IF comments = <<>> THEN <<>> ELSE <<Head(comments).body>> \o Bodies(Tail(comments))

Stages == {"reshape", "bind", "corpus"}
FreshStage == [s \in Stages |-> "idle"]
NoTasks == [t \in {"tickets_reshaped", "comments_bound", "_bind_comments"} |->
               [st |-> "none", i |-> 0, j |-> 0, result |-> "none"]]
Unbound == [bound |-> FALSE, items |-> <<>>]
\* wrangler.py DataWrangler.__init__: self.comments_dir = None
None == [set |-> FALSE, paths |-> <<>>]

PipelineInit ==
    /\ ticket_file \in TicketFiles
    /\ comments_files \in Directories
    /\ impl \in {"classes", "wrangler"}
    /\ wrangled_tickets = <<>>
    /\ corpus = <<>>
    /\ comments_dir = None
    /\ written = {}
    /\ pc = "idle"
    /\ ti = 0
    /\ fi = 0
    /\ filenames = <<>>
    /\ grouped_comments = Unbound
    /\ corpus_list = <<>>
    /\ task = NoTasks
    /\ stage = FreshStage
    /\ runs = 0
    /\ history = <<>>

\* an unsigned 32-bit value, by its two 16-bit halves: hi * 65536 + lo
U32(hi, lo) == [hi |-> hi, lo |-> lo]

\* a <= b on unsigned 32-bit values
U32Leq(a, b) == a.hi < b.hi \/ (a.hi = b.hi /\ a.lo <= b.lo)

\* the values that stand for a draw from the 32-bit range: its lowest two,
\* 100, and its highest
SeedSamples == {U32(0, 0), U32(0, 1), U32(0, 100), U32(65535, 65535)}

\* random.randint(a, b): any value from a to b, both included
randint(a, b) == {x \in SeedSamples : U32Leq(a, x) /\ U32Leq(x, b)}

\* LDA_logic.py _generate_random_state: random.randint(1, (4294967296 - 1))
_generate_random_state == randint(U32(0, 1), U32(65535, 65535))

\* no model has been fitted; a seed is drawn by the generator or written in the code
NoSeed == [seed |-> U32(0, 0), drawn |-> FALSE, fitted |-> FALSE]
Seed(x, drawn) == [seed |-> x, drawn |-> drawn, fitted |-> TRUE]

\* an argument of train_model: a Python str or a Python int, by its digits
str(cs) == [type |-> "str", v |-> cs]
int(cs) == [type |-> "int", v |-> cs]

\* no train_model request has been made
NoRequest == [passes |-> str(<<>>), iterations |-> str(<<>>), number_of_topics |-> str(<<>>),
              outcome |-> "none", callbacks |-> <<>>, thread |-> FALSE]

\* no sweep is modelled beside the pipeline
SweepAbsent ==
    /\ lda_impl = "none"
    /\ num_of_topics = 0
    /\ worker_attrs = FALSE
    /\ topics = <<>>
    /\ coherence_values = <<>>
    /\ landscape = "rising"
    /\ spc = "idle"
    /\ si = 0
    /\ executor = "open"
    /\ futures = <<>>
    /\ callbacks = <<>>
    /\ random_state = NoSeed
    /\ request = NoRequest
    /\ completions = <<>>
    /\ sweeps = 0
    /\ sweep_log = <<>>

\* no text is cleansed outside the pipeline
CleanseAbsent ==
    /\ raw_text = <<>>
    /\ cleansings = <<>>

\* no snapshot naming is modelled beside the pipeline
SnapshotAbsent ==
    /\ today = 0
    /\ filename_defaults = <<>>
    /\ snapshot_log = <<>>

Init == PipelineInit /\ SweepAbsent /\ CleanseAbsent /\ SnapshotAbsent

\* the bounds of the model: the number of runs on one DataWrangler, and the
\* size the Ticket Store may reach
CanRun == runs < MaxRuns /\ Len(wrangled_tickets) + Len(ticket_file.data) <= MaxStore

\* the end of a run of process / run_async: what the run left behind
EndRun(result, corpus_now, written_now, stage_now) ==
    /\ pc' = "idle"
    /\ history' = Append(history, [result |-> result, corpus |-> corpus_now,
                                   tickets |-> Len(wrangled_tickets), written |-> written_now,
                                   stage |-> stage_now])

\* ---------------------------------------------- classes.py DataWrangler

\* process(): entry
process ==
    /\ impl = "classes" /\ pc = "idle" /\ CanRun
    /\ runs' = runs + 1
    /\ pc' = "tickets_reshaped"
    /\ stage' = [FreshStage EXCEPT !.reshape = "running"]
    /\ written' = {}
    /\ UNCHANGED <<ticket_file, comments_files, impl, wrangled_tickets, corpus, comments_dir,
                   ti, fi, filenames, grouped_comments, corpus_list, task, history>>
    /\ UNCHANGED <<sweep_vars, cleanse_vars, snapshot_vars>>

\* tickets_reshaped(): open(self.ticket_file) and json.load
tickets_reshaped_open ==
    /\ impl = "classes" /\ pc = "tickets_reshaped"
    /\ IF ticket_file.exists
       THEN /\ pc' = "reshape_loop"
            /\ ti' = 1
            /\ UNCHANGED <<stage, history>>
       ELSE /\ stage' = [stage EXCEPT !.reshape = "failed"]
            /\ ti' = 0
            /\ EndRun("False", corpus, written, stage')
    /\ UNCHANGED <<ticket_file, comments_files, impl, wrangled_tickets, corpus, comments_dir,
                   written, fi, filenames, grouped_comments, corpus_list, task, runs>>
    /\ UNCHANGED <<sweep_vars, cleanse_vars, snapshot_vars>>

\* tickets_reshaped(): one iteration of `for ticket in tickets_data`, or the return
tickets_reshaped_loop ==
    /\ impl = "classes" /\ pc = "reshape_loop"
    /\ IF ti <= Len(ticket_file.data)
       THEN IF TicketParses(ticket_file.data[ti])
            THEN /\ \E placeholder \in PlaceholderIds :
                      wrangled_tickets' = append(wrangled_tickets,
                                                 ReshapedTicket(ticket_file.data[ti], placeholder))
                 /\ ti' = ti + 1
                 /\ UNCHANGED <<pc, stage, history>>
            ELSE /\ stage' = [stage EXCEPT !.reshape = "failed"]
                 /\ ti' = 0
                 /\ EndRun("False", corpus, written, stage')
                 /\ UNCHANGED wrangled_tickets
       ELSE /\ stage' = [stage EXCEPT !.reshape = "done", !.bind = "running"]
            /\ pc' = "comments_bound"
            /\ ti' = 1
            /\ UNCHANGED <<wrangled_tickets, history>>
    /\ UNCHANGED <<ticket_file, comments_files, impl, corpus, comments_dir,
                   written, fi, filenames, grouped_comments, corpus_list, task, runs>>
    /\ UNCHANGED <<sweep_vars, cleanse_vars, snapshot_vars>>


\* the directory as the file system shows it
FileNames == {f.name : f \in comments_files}
FileContent(name) == (CHOOSE f \in comments_files : f.name = name).content

\* os.listdir(): the names, in arbitrary order
listdir == Perms(FileNames)

\* classes.py comments_bound, `for comment in value`: the dicts appended before
\* the loop ends or reshaped_comment raises
RECURSIVE BoundDicts(_)
BoundDicts(value) ==
    IF value = <<>> \/ ~reshaped_comment_ok(Head(value)) THEN <<>>
    ELSE <<to_dict_format(reshaped_comment(Head(value)))>> \o BoundDicts(Tail(value))

\* comments_bound(): os.listdir for the next ticket, or the return
comments_bound_listdir ==
    /\ impl = "classes" /\ pc = "comments_bound"
    /\ IF ti <= Len(wrangled_tickets)
       THEN /\ \E listing \in listdir : filenames' = listing
            /\ fi' = 1
            /\ pc' = "bind_files"
            /\ UNCHANGED <<ti, stage, grouped_comments>>
       ELSE /\ stage' = [stage EXCEPT !.bind = "done", !.corpus = "running"]
            /\ pc' = "create_corpous"
            /\ ti' = 1
            /\ grouped_comments' = Unbound
            /\ UNCHANGED <<fi, filenames>>
    /\ UNCHANGED <<ticket_file, comments_files, impl, wrangled_tickets, corpus, comments_dir,
                   written, corpus_list, task, runs, history>>
    /\ UNCHANGED <<sweep_vars, cleanse_vars, snapshot_vars>>

\* comments_bound(): one iteration of `for filename in os.listdir(...)`
comments_bound_file ==
    /\ impl = "classes" /\ pc = "bind_files"
    /\ IF fi <= Len(filenames)
       THEN IF StartsWith(filenames[fi], IntToStr(wrangled_tickets[ti].id))
            THEN LET comments_data == FileContent(filenames[fi]) IN
                 IF comments_data.json_ok
                 THEN /\ wrangled_tickets' =
                            [wrangled_tickets EXCEPT ![ti].comments = @ \o BoundDicts(comments_data.value)]
                      /\ IF \A k \in 1..Len(comments_data.value) : reshaped_comment_ok(comments_data.value[k])
                         THEN /\ fi' = fi + 1
                              /\ UNCHANGED <<pc, ti, stage, history>>
                         ELSE /\ stage' = [stage EXCEPT !.bind = "failed"]
                              /\ fi' = 0 /\ ti' = 0
                              /\ EndRun("False", corpus, written, stage')
                 ELSE /\ stage' = [stage EXCEPT !.bind = "failed"]
                      /\ fi' = 0 /\ ti' = 0
                      /\ EndRun("False", corpus, written, stage')
                      /\ UNCHANGED wrangled_tickets
            ELSE /\ fi' = fi + 1
                 /\ UNCHANGED <<pc, ti, stage, history, wrangled_tickets>>
       ELSE /\ ti' = ti + 1
            /\ fi' = 0
            /\ pc' = "comments_bound"
            /\ UNCHANGED <<stage, history, wrangled_tickets>>
    /\ filenames' = IF pc' = "bind_files" THEN filenames ELSE <<>>
    /\ UNCHANGED <<ticket_file, comments_files, impl, corpus, comments_dir,
                   written, grouped_comments, corpus_list, task, runs>>
    /\ UNCHANGED <<sweep_vars, cleanse_vars, snapshot_vars>>

\* create_corpous(): one iteration of `for ticket in self.wrangled_tickets`
\* (the list is created anew for each ticket), or the join and the return
create_corpous ==
    /\ impl = "classes" /\ pc = "create_corpous"
    /\ IF ti <= Len(wrangled_tickets)
       THEN /\ grouped_comments' = [bound |-> TRUE, items |-> Bodies(wrangled_tickets[ti].comments)]
            /\ ti' = ti + 1
            /\ UNCHANGED <<pc, corpus, stage, history>>
       ELSE IF grouped_comments.bound
            THEN /\ corpus' = Join(grouped_comments.items)
                 /\ stage' = [stage EXCEPT !.corpus = "done"]
                 /\ pc' = "write"
                 /\ ti' = 0
                 /\ UNCHANGED <<grouped_comments, history>>
            ELSE /\ stage' = [stage EXCEPT !.corpus = "failed"]
                 /\ ti' = 0
                 /\ EndRun("False", corpus, written, stage')
                 /\ UNCHANGED <<grouped_comments, corpus>>
    /\ UNCHANGED <<ticket_file, comments_files, impl, wrangled_tickets, comments_dir,
                   written, fi, filenames, corpus_list, task, runs>>
    /\ UNCHANGED <<sweep_vars, cleanse_vars, snapshot_vars>>

\* classes.py MyEncoder.default: a Comment object is not serializable
Serializable(tickets) ==
    \A k \in 1..Len(tickets) : \A m \in 1..Len(tickets[k].comments) :
        tickets[k].comments[m].type = "dict"

\* process(): open the output file and json.dump the tickets
process_write ==
    /\ impl = "classes" /\ pc = "write"
    /\ written' = written \cup {"processed_tickets"}
    /\ EndRun(IF Serializable(wrangled_tickets) THEN "None" ELSE "RuntimeError",
              corpus, written', stage)
    /\ UNCHANGED <<ticket_file, comments_files, impl, wrangled_tickets, corpus, comments_dir,
                   ti, fi, filenames, grouped_comments, corpus_list, task, stage, runs>>
    /\ UNCHANGED <<sweep_vars, cleanse_vars, snapshot_vars>>

\* ------------------------------- wrangler.py DataWrangler / WranglerWorker

\* ThreadPoolExecutor(max_workers=2)
max_workers == 2

Running == {t \in DOMAIN task : task[t].st = "running"}

\* a pool with a single worker thread
FreeWorker_single_thread == Cardinality(Running) < 1

\* a worker thread of the executor is free: fewer tasks run than it has threads
FreeWorker == Cardinality(Running) < max_workers

\* the path of a file of the comments directory, as handed to the wrangler
PathOf(name) == <<"c", "/">> \o name

\* DataWrangler.__setitem__("comments_dir", ...): the caller hands over the
\* paths of the directory's files, in the order the file system listed them
set_comments_dir ==
    /\ impl = "wrangler" /\ pc = "idle" /\ CanRun
    /\ \E listing \in listdir :
          comments_dir' = [set |-> TRUE, paths |-> [k \in 1..Len(listing) |-> PathOf(listing[k])]]
    /\ UNCHANGED <<ticket_file, comments_files, impl, wrangled_tickets, corpus,
                   written, pc, ti, fi, filenames, grouped_comments, corpus_list, task,
                   stage, runs, history>>
    /\ UNCHANGED <<sweep_vars, cleanse_vars, snapshot_vars>>

\* filename.split("/")[-1].split(".")[0]
file_ticket_no(filename) ==
    CHOOSE stem \in {BeforeFirst(name, ".") : name \in {AfterLast(filename, "/")}} : TRUE

\* open(filename) + json.load, for a path of comments_dir
Load(filename) ==
    CHOOSE content \in {FileContent(name) : name \in {AfterLast(filename, "/")}} : TRUE

\* run_async(): submit tickets_reshaped to the executor and enter create_corpus
run_async ==
    /\ impl = "wrangler" /\ pc = "idle" /\ CanRun
    /\ runs' = runs + 1
    /\ task' = [NoTasks EXCEPT !["tickets_reshaped"].st = "queued"]
    /\ pc' = "create_corpus"
    /\ fi' = 1
    /\ corpus_list' = <<>>
    /\ stage' = [FreshStage EXCEPT !.corpus = "running"]
    /\ written' = {}
    /\ UNCHANGED <<ticket_file, comments_files, impl, wrangled_tickets, corpus, comments_dir,
                   ti, filenames, grouped_comments, history>>
    /\ UNCHANGED <<sweep_vars, cleanse_vars, snapshot_vars>>

\* create_corpus, `for comment in file[ticket_no]`: the cleansed bodies, as far
\* as comment['plain_body'] is there
CleansedBodies(value) == [k \in 1..Len(value) |-> _cleanse(value[k].plain_body)]

CorpusFileOk(filename) ==
    LET file == Load(filename) IN
    /\ file.json_ok
    /\ file.key = file_ticket_no(filename)
    /\ \A k \in 1..Len(file.value) : file.value[k].has_body

\* create_corpus(), called by run_async in the calling thread: one iteration of
\* `for filename in comments_dir`, or the join, generate_corpus_json and the
\* return; on any exception it returns " ", which run_async stores as the corpus
create_corpus ==
    /\ impl = "wrangler" /\ pc = "create_corpus"
    /\ IF ~comments_dir.set
       THEN /\ corpus' = <<" ">>
            /\ stage' = [stage EXCEPT !.corpus = "failed"]
            /\ pc' = "future_tickets"
            /\ fi' = 0
            /\ UNCHANGED <<corpus_list, written>>
       ELSE IF fi <= Len(comments_dir.paths)
       THEN IF CorpusFileOk(comments_dir.paths[fi])
            THEN /\ corpus_list' = corpus_list \o CleansedBodies(Load(comments_dir.paths[fi]).value)
                 /\ fi' = fi + 1
                 /\ UNCHANGED <<corpus, stage, pc, written>>
            ELSE /\ corpus' = <<" ">>
                 /\ stage' = [stage EXCEPT !.corpus = "failed"]
                 /\ pc' = "future_tickets"
                 /\ fi' = 0
                 /\ corpus_list' = <<>>
                 /\ UNCHANGED written
       ELSE /\ corpus' = Join(corpus_list)
            /\ written' = written \cup {"corpus"}
            /\ stage' = [stage EXCEPT !.corpus = "done"]
            /\ pc' = "future_tickets"
            /\ fi' = 0
            /\ corpus_list' = <<>>
    /\ UNCHANGED <<ticket_file, comments_files, impl, wrangled_tickets, comments_dir,
                   ti, filenames, grouped_comments, task, runs, history>>
    /\ UNCHANGED <<sweep_vars, cleanse_vars, snapshot_vars>>

\* the executor starts a queued task on a free worker thread
executor_start ==
    /\ impl = "wrangler"
    /\ FreeWorker
    /\ \E t \in DOMAIN task :
          /\ task[t].st = "queued"
          /\ task' = [task EXCEPT ![t].st = "running"]
          /\ stage' = IF t = "tickets_reshaped" THEN [stage EXCEPT !.reshape = "running"]
                      ELSE IF t = "comments_bound" THEN [stage EXCEPT !.bind = "running"]
                      ELSE stage
    /\ UNCHANGED <<ticket_file, comments_files, impl, wrangled_tickets, corpus, comments_dir,
                   written, pc, ti, fi, filenames, grouped_comments, corpus_list, runs, history>>
    /\ UNCHANGED <<sweep_vars, cleanse_vars, snapshot_vars>>

\* WranglerWorker.tickets_reshaped, run by a pool thread: the open (i = 0), one
\* iteration of `for ticket_data in tickets_data`, or the return
tickets_reshaped ==
    /\ impl = "wrangler" /\ task["tickets_reshaped"].st = "running"
    /\ LET i == task["tickets_reshaped"].i IN
       IF ~ticket_file.exists
       THEN /\ task' = [task EXCEPT !["tickets_reshaped"].st = "done", !["tickets_reshaped"].result = "False"]
            /\ stage' = [stage EXCEPT !.reshape = "failed"]
            /\ UNCHANGED wrangled_tickets
       ELSE IF i = 0
       THEN /\ task' = [task EXCEPT !["tickets_reshaped"].i = 1]
            /\ UNCHANGED <<stage, wrangled_tickets>>
       ELSE IF i <= Len(ticket_file.data)
       THEN IF TicketParses(ticket_file.data[i])
            THEN /\ wrangled_tickets' = append(wrangled_tickets, _reshape_ticket(ticket_file.data[i]))
                 /\ task' = [task EXCEPT !["tickets_reshaped"].i = i + 1]
                 /\ UNCHANGED stage
            ELSE /\ task' = [task EXCEPT !["tickets_reshaped"].st = "done", !["tickets_reshaped"].result = "False"]
                 /\ stage' = [stage EXCEPT !.reshape = "failed"]
                 /\ UNCHANGED wrangled_tickets
       ELSE /\ task' = [task EXCEPT !["tickets_reshaped"].st = "done", !["tickets_reshaped"].result = "True"]
            /\ stage' = [stage EXCEPT !.reshape = "done"]
            /\ UNCHANGED wrangled_tickets
    /\ UNCHANGED <<ticket_file, comments_files, impl, corpus, comments_dir,
                   written, pc, ti, fi, filenames, grouped_comments, corpus_list, runs, history>>
    /\ UNCHANGED <<sweep_vars, cleanse_vars, snapshot_vars>>

\* run_async(): future_tickets.result(), then the submit of comments_bound or the end
run_async_future_tickets ==
    /\ impl = "wrangler" /\ pc = "future_tickets"
    /\ task["tickets_reshaped"].st = "done"
    /\ IF task["tickets_reshaped"].result = "True"
       THEN /\ task' = [task EXCEPT !["comments_bound"] = [st |-> "queued", i |-> 1, j |-> 0, result |-> "none"]]
            /\ pc' = "future_comments"
            /\ UNCHANGED history
       ELSE /\ EndRun("None", corpus, written, stage)
            /\ UNCHANGED task
    /\ UNCHANGED <<ticket_file, comments_files, impl, wrangled_tickets, corpus, comments_dir,
                   written, ti, fi, filenames, grouped_comments, corpus_list, stage, runs>>
    /\ UNCHANGED <<sweep_vars, cleanse_vars, snapshot_vars>>

\* WranglerWorker.comments_bound, run by a pool thread: submit _bind_comments for
\* the next ticket (j = 0), or take its future's result (j = 1), or return
comments_bound ==
    /\ impl = "wrangler" /\ task["comments_bound"].st = "running"
    /\ LET i == task["comments_bound"].i IN
       IF task["comments_bound"].j = 0
       THEN IF i <= Len(wrangled_tickets)
            THEN /\ task' = [task EXCEPT !["comments_bound"].j = 1,
                                         !["_bind_comments"] = [st |-> "queued", i |-> i, j |-> 1, result |-> "none"]]
                 /\ UNCHANGED stage
            ELSE /\ task' = [task EXCEPT !["comments_bound"].st = "done", !["comments_bound"].result = "True"]
                 /\ stage' = [stage EXCEPT !.bind = "done"]
       ELSE /\ task["_bind_comments"].st = "done"
            /\ IF task["_bind_comments"].result = "returned"
               THEN /\ task' = [task EXCEPT !["comments_bound"].i = i + 1, !["comments_bound"].j = 0,
                                            !["_bind_comments"] = NoTasks["_bind_comments"]]
                    /\ UNCHANGED stage
               ELSE /\ task' = [task EXCEPT !["comments_bound"].st = "done", !["comments_bound"].result = "False",
                                            !["_bind_comments"] = NoTasks["_bind_comments"]]
                    /\ stage' = [stage EXCEPT !.bind = "failed"]
    /\ UNCHANGED <<ticket_file, comments_files, impl, wrangled_tickets, corpus, comments_dir,
                   written, pc, ti, fi, filenames, grouped_comments, corpus_list, runs, history>>
    /\ UNCHANGED <<sweep_vars, cleanse_vars, snapshot_vars>>

\* _bind_comments, `for comment in value`: the Comments appended before the loop
\* ends or _reshaped_comment raises
RECURSIVE BoundComments(_)
BoundComments(value) ==
    IF value = <<>> \/ ~_reshaped_comment_ok(Head(value)) THEN <<>>
    ELSE <<_reshaped_comment(Head(value))>> \o BoundComments(Tail(value))

\* WranglerWorker._bind_comments, run by a pool thread for ticket i: one
\* iteration of `for filename in comments_dir`, or the return; an exception
\* ends the task and is re-raised by future.result()
_bind_comments ==
    /\ impl = "wrangler" /\ task["_bind_comments"].st = "running"
    /\ LET i == task["_bind_comments"].i
           j == task["_bind_comments"].j
           raised == [task EXCEPT !["_bind_comments"].st = "done", !["_bind_comments"].result = "raised"]
       IN
       IF ~comments_dir.set
       THEN /\ task' = raised
            /\ UNCHANGED wrangled_tickets
       ELSE IF j <= Len(comments_dir.paths)
       THEN LET filename == comments_dir.paths[j] IN
            IF ~IsInt(file_ticket_no(filename))
            THEN /\ task' = raised
                 /\ UNCHANGED wrangled_tickets
            ELSE IF ParseInt(file_ticket_no(filename)) = wrangled_tickets[i].id
            THEN IF Load(filename).json_ok
                 THEN /\ wrangled_tickets' =
                            [wrangled_tickets EXCEPT ![i].comments = @ \o BoundComments(Load(filename).value)]
                      /\ task' = IF \A k \in 1..Len(Load(filename).value) :
                                        _reshaped_comment_ok(Load(filename).value[k])
                                 THEN [task EXCEPT !["_bind_comments"].j = j + 1]
                                 ELSE raised
                 ELSE /\ task' = raised
                      /\ UNCHANGED wrangled_tickets
            ELSE /\ task' = [task EXCEPT !["_bind_comments"].j = j + 1]
                 /\ UNCHANGED wrangled_tickets
       ELSE /\ task' = [task EXCEPT !["_bind_comments"].st = "done", !["_bind_comments"].result = "returned"]
            /\ UNCHANGED wrangled_tickets
    /\ UNCHANGED <<ticket_file, comments_files, impl, corpus, comments_dir,
                   written, pc, ti, fi, filenames, grouped_comments, corpus_list, stage, runs, history>>
    /\ UNCHANGED <<sweep_vars, cleanse_vars, snapshot_vars>>

\* run_async(): future_comments.result() and the end
run_async_future_comments ==
    /\ impl = "wrangler" /\ pc = "future_comments"
    /\ task["comments_bound"].st = "done"
    /\ EndRun("None", corpus, written, stage)
    /\ UNCHANGED <<ticket_file, comments_files, impl, wrangled_tickets, corpus, comments_dir,
                   written, ti, fi, filenames, grouped_comments, corpus_list, task, stage, runs>>
    /\ UNCHANGED <<sweep_vars, cleanse_vars, snapshot_vars>>

WranglerNext ==
    \/ set_comments_dir
    \/ run_async
    \/ create_corpus
    \/ executor_start
    \/ tickets_reshaped
    \/ run_async_future_tickets
    \/ comments_bound
    \/ _bind_comments
    \/ run_async_future_comments

ClassesNext ==
    \/ process
    \/ tickets_reshaped_open
    \/ tickets_reshaped_loop
    \/ comments_bound_listdir
    \/ comments_bound_file
    \/ create_corpous
    \/ process_write

PipelineNext == ClassesNext \/ WranglerNext

Next == PipelineNext

\* run_async on its own: the calling thread and the two pool threads all get
\* to run (the operating system schedules every runnable thread, and the
\* executor starts a queued task whenever a worker thread is free); when the
\* caller sets the directory or calls run_async is up to the caller
RunAsyncInit == PipelineInit /\ impl = "wrangler" /\ SweepAbsent /\ CleanseAbsent /\ SnapshotAbsent

RunAsyncFairness ==
    /\ WF_vars(create_corpus)
    /\ WF_vars(executor_start)
    /\ WF_vars(tickets_reshaped)
    /\ WF_vars(run_async_future_tickets)
    /\ WF_vars(comments_bound)
    /\ WF_vars(_bind_comments)
    /\ WF_vars(run_async_future_comments)

RunAsyncSpec == RunAsyncInit /\ [][WranglerNext]_vars /\ RunAsyncFairness

\* the wrangling pipeline, in both variants
Spec == Init /\ [][Next]_vars


\* ------------------------------------------------------- the topic sweep

\* no pipeline is modelled beside the sweep
PipelineAbsent ==
    /\ ticket_file = NoTicketFile
    /\ comments_files = {}
    /\ impl = "none"
    /\ wrangled_tickets = <<>>
    /\ corpus = <<>>
    /\ comments_dir = None
    /\ written = {}
    /\ pc = "idle"
    /\ ti = 0
    /\ fi = 0
    /\ filenames = <<>>
    /\ grouped_comments = Unbound
    /\ corpus_list = <<>>
    /\ task = NoTasks
    /\ stage = FreshStage
    /\ runs = 0
    /\ history = <<>>

\* The coherence scorer is external: which score it gives a topic count is
\* an input.  Scores are integers standing for the floats.
Landscapes == {"rising", "falling", "peaked"}

get_coherence(l, i) ==
    CASE l = "rising" -> i
      [] l = "falling" -> 100 - i
      [] OTHER -> IF i <= 2 THEN 50 + i ELSE 50 - i

\* lda.py model_trained: `for i in range(1, 20)`
SweepStop == 20

\* LDA_logic.py LDAModelWorker.__init__: ThreadPoolExecutor(max_workers=4)
lda_max_workers == 4

SweepInit ==
    /\ PipelineAbsent
    /\ CleanseAbsent
    /\ SnapshotAbsent
    /\ lda_impl \in {"lda", "LDA_logic"}
    /\ num_of_topics \in 1..MaxTopics
    /\ worker_attrs \in (IF lda_impl = "LDA_logic" THEN BOOLEAN ELSE {FALSE})
    /\ topics = <<>>
    /\ coherence_values = <<>>
    /\ landscape \in Landscapes
    /\ spc = "idle"
    /\ si = 0
    /\ executor = "open"
    /\ futures = <<>>
    /\ callbacks = <<>>
    /\ random_state = NoSeed
    /\ request = NoRequest
    /\ completions = <<>>
    /\ sweeps = 0
    /\ sweep_log = <<>>

\* the end of a sweep: what it left behind
EndSweep(result, topics_now, coherence_now, callbacks_now) ==
    /\ spc' = "idle"
    /\ si' = 0
    /\ sweep_log' = Append(sweep_log, [result |-> result, topics |-> topics_now,
                                       coherence_values |-> coherence_now,
                                       callbacks |-> callbacks_now])

\* lda.py model_trained(): entry
lda_model_trained ==
    /\ lda_impl = "lda" /\ spc = "idle" /\ sweeps < MaxSweeps
    /\ sweeps' = sweeps + 1
    /\ spc' = "loop"
    /\ si' = 1
    /\ UNCHANGED <<random_state, request, completions, lda_impl, num_of_topics, worker_attrs, topics, coherence_values, landscape,
                   executor, futures, callbacks, sweep_log>>
    /\ UNCHANGED <<pipeline_vars, cleanse_vars, snapshot_vars>>

\* lda.py model_trained(): one iteration of `for i in range(1, 20)`, or the
\* return.  The engine may raise while fitting (before topics.append) or
\* while scoring (cm.get_coherence(), evaluated after topics.append).
lda_model_trained_loop ==
    /\ lda_impl = "lda" /\ spc = "loop"
    /\ random_state' = IF si < SweepStop THEN Seed(U32(0, 100), FALSE) ELSE random_state
    /\ IF si < SweepStop
       THEN \/ /\ topics' = Append(topics, si)
               /\ coherence_values' = Append(coherence_values, get_coherence(landscape, si))
               /\ si' = si + 1
               /\ UNCHANGED <<spc, sweep_log>>
            \/ /\ EndSweep("False", topics, coherence_values, callbacks)
               /\ UNCHANGED <<topics, coherence_values>>
            \/ /\ topics' = Append(topics, si)
               /\ EndSweep("False", topics', coherence_values, callbacks)
               /\ UNCHANGED coherence_values
       ELSE /\ EndSweep("True", topics, coherence_values, callbacks)
            /\ UNCHANGED <<topics, coherence_values>>
    /\ UNCHANGED <<request, completions, lda_impl, num_of_topics, worker_attrs, landscape,
                   executor, futures, callbacks, sweeps>>
    /\ UNCHANGED <<pipeline_vars, cleanse_vars, snapshot_vars>>

\* LDA_logic.py LDAModelWorker.model_trained(): start the thread that runs
\* train(); every fit draws a fresh seed, so the scores are drawn anew
model_trained ==
    /\ lda_impl = "LDA_logic" /\ spc = "idle" /\ sweeps < MaxSweeps
    /\ sweeps' = sweeps + 1
    /\ spc' = "train"
    /\ futures' = <<>>
    /\ callbacks' = <<>>
    /\ completions' = <<>>
    /\ landscape' \in Landscapes
    /\ UNCHANGED <<random_state, request, lda_impl, num_of_topics, worker_attrs, topics, coherence_values,
                   si, executor, sweep_log>>
    /\ UNCHANGED <<pipeline_vars, cleanse_vars, snapshot_vars>>

\* train(): `with self.executor` and the read of self.num_topics, which the
\* worker has only if it was given to it; the AttributeError leaves the
\* with block, which shuts the executor down, and is reported by the callback
train_enter ==
    /\ lda_impl = "LDA_logic" /\ spc = "train"
    /\ IF worker_attrs
       THEN /\ spc' = "submit"
            /\ si' = 1
            /\ UNCHANGED <<executor, callbacks, sweep_log>>
       ELSE /\ executor' = "shutdown"
            /\ callbacks' = Append(callbacks, "error")
            /\ EndSweep("error", topics, coherence_values, callbacks')
    /\ UNCHANGED <<random_state, request, completions, lda_impl, num_of_topics, worker_attrs, topics, coherence_values, landscape,
                   futures, sweeps>>
    /\ UNCHANGED <<pipeline_vars, cleanse_vars, snapshot_vars>>

\* train(): one executor.submit of `for i in range(1, self.num_topics + 1)`;
\* submit raises RuntimeError once the executor has been shut down
train_submit ==
    /\ lda_impl = "LDA_logic" /\ spc = "submit"
    /\ IF si <= num_of_topics
       THEN IF executor = "open"
            THEN /\ futures' = Append(futures, "queued")
                 /\ si' = si + 1
                 /\ UNCHANGED <<spc, callbacks, sweep_log>>
            ELSE /\ callbacks' = Append(callbacks, "error")
                 /\ EndSweep("error", topics, coherence_values, callbacks')
                 /\ UNCHANGED futures
       ELSE /\ spc' = "collect"
            /\ si' = 1
            /\ UNCHANGED <<futures, callbacks, sweep_log>>
    /\ UNCHANGED <<random_state, request, completions, lda_impl, num_of_topics, worker_attrs, topics, coherence_values, landscape,
                   executor, sweeps>>
    /\ UNCHANGED <<pipeline_vars, cleanse_vars, snapshot_vars>>

\* the executor starts the oldest queued training on a free worker thread
lda_executor_start ==
    /\ lda_impl = "LDA_logic"
    /\ Cardinality({k \in 1..Len(futures) : futures[k] = "running"}) < lda_max_workers
    /\ \E i \in 1..Len(futures) :
          /\ futures[i] = "queued"
          /\ \A k \in 1..(i - 1) : futures[k] # "queued"
          /\ futures' = [futures EXCEPT ![i] = "running"]
    /\ UNCHANGED <<random_state, request, completions, lda_impl, num_of_topics, worker_attrs, topics, coherence_values, landscape,
                   spc, si, executor, callbacks, sweeps, sweep_log>>
    /\ UNCHANGED <<pipeline_vars, cleanse_vars, snapshot_vars>>

\* _train_single_model(i), run by a pool thread: returns its result, or raises
_train_single_model ==
    /\ lda_impl = "LDA_logic"
    /\ \E i \in 1..Len(futures) :
          /\ futures[i] = "running"
          /\ \E outcome \in {"done", "raised"} : futures' = [futures EXCEPT ![i] = outcome]
          /\ \E random_seed \in _generate_random_state :
                random_state' \in {Seed(random_seed, TRUE)} \cup
                                  (IF futures'[i] = "raised" THEN {random_state} ELSE {})
          /\ completions' = Append(completions, i)
    /\ UNCHANGED <<request, lda_impl, num_of_topics, worker_attrs, topics, coherence_values, landscape,
                   spc, si, executor, callbacks, sweeps, sweep_log>>
    /\ UNCHANGED <<pipeline_vars, cleanse_vars, snapshot_vars>>

\* the results taken as the trainings end, whatever their topic counts
futures_as_completed(submitted, ended) == ended

\* train(): `for future in futures`, the order in which the results are
\* taken: the order of submission, which is the order of the topic counts
futures_in_order(submitted, ended) == [k \in 1..Len(submitted) |-> k]

\* train(): one iteration of `for future in futures`: future.result() blocks
\* until that training has ended, and re-raises what it raised; the result
\* carries the topic count the training was submitted with
train_collect ==
    /\ lda_impl = "LDA_logic" /\ spc = "collect"
    /\ IF si <= Len(futures)
       THEN /\ si <= Len(futures_in_order(futures, completions))
            /\ LET i == futures_in_order(futures, completions)[si] IN
               /\ futures[i] \in {"done", "raised"}
               /\ IF futures[i] = "done"
                  THEN /\ topics' = Append(topics, i)
                       /\ coherence_values' = Append(coherence_values, get_coherence(landscape, i))
                       /\ callbacks' = Append(callbacks, "progress")
                       /\ si' = si + 1
                       /\ UNCHANGED spc
                  ELSE /\ spc' = "exit_raised"
                       /\ UNCHANGED <<topics, coherence_values, callbacks, si>>
       ELSE /\ spc' = "exit"
            /\ UNCHANGED <<topics, coherence_values, callbacks, si>>
    /\ UNCHANGED <<random_state, request, completions, lda_impl, num_of_topics, worker_attrs, landscape,
                   executor, futures, sweeps, sweep_log>>
    /\ UNCHANGED <<pipeline_vars, cleanse_vars, snapshot_vars>>

\* train(): the end of the with block, executor.shutdown(wait=True), which
\* waits for every submitted training; then callback(success=True), or
\* callback(error=...) from the except clause
train_exit ==
    /\ lda_impl = "LDA_logic" /\ spc \in {"exit", "exit_raised"}
    /\ \A k \in 1..Len(futures) : futures[k] \in {"done", "raised"}
    /\ executor' = "shutdown"
    /\ callbacks' = Append(callbacks, IF spc = "exit" THEN "success" ELSE "error")
    /\ EndSweep(IF spc = "exit" THEN "success" ELSE "error", topics, coherence_values, callbacks')
    /\ UNCHANGED <<random_state, request, completions, lda_impl, num_of_topics, worker_attrs, topics, coherence_values, landscape,
                   futures, sweeps>>
    /\ UNCHANGED <<pipeline_vars, cleanse_vars, snapshot_vars>>

\* the values a caller passes to train_model for passes and for iterations
PassesInputs == {str(<<"1", "9">>), str(<<"2", "0">>), str(<<"0">>), int(<<"1", "9">>)}
IterationsInputs == {str(<<"1", "9", "9">>), str(<<"2", "0", "0">>), str(<<"0">>), str(<<"x">>)}

\* _validate_inputs: all(map(str.isdigit, [...])) visits the arguments in
\* order and stops at the first that is not all digits; str.isdigit applied
\* to an int raises TypeError.  Then the two ceilings.
_validate_inputs(number_of_topics, iterations, passes) ==
    LET args == <<number_of_topics, iterations, passes>>
        stop == {k \in 1..3 : args[k].type # "str" \/ ~IsInt(args[k].v)}
    IN IF stop # {}
       THEN IF args[CHOOSE k \in stop : \A j \in stop : k <= j].type # "str"
            THEN [raised |-> TRUE, valid |-> FALSE, error_message |-> "TypeError"]
            ELSE [raised |-> FALSE, valid |-> FALSE, error_message |-> "All inputs must be integers."]
       ELSE IF ParseInt(passes.v) >= 20 \/ ParseInt(iterations.v) >= 200
            THEN [raised |-> FALSE, valid |-> FALSE,
                  error_message |-> "Passes should be < 20 and iterations < 200."]
            ELSE [raised |-> FALSE, valid |-> TRUE, error_message |-> ""]

\* LDA_logic.py LDAModelWorker.train_model(): validate; a rejected request
\* is reported by callback(error=...) and returns, an accepted one starts
\* the thread that runs train(); what _validate_inputs raises leaves
\* train_model as it is
train_model ==
    /\ lda_impl = "LDA_logic" /\ spc = "idle" /\ sweeps < MaxSweeps
    /\ sweeps' = sweeps + 1
    /\ \E passes \in PassesInputs, iterations \in IterationsInputs :
          LET number_of_topics == str(IntToStr(num_of_topics))
              v == _validate_inputs(number_of_topics, iterations, passes)
              asked == [passes |-> passes, iterations |-> iterations,
                        number_of_topics |-> number_of_topics, outcome |-> "none",
                        callbacks |-> <<>>, thread |-> FALSE]
          IN IF v.raised
             THEN /\ request' = [asked EXCEPT !.outcome = "raised"]
                  /\ callbacks' = <<>>
                  /\ EndSweep("raised", topics, coherence_values, callbacks')
             ELSE IF ~v.valid
             THEN /\ request' = [asked EXCEPT !.outcome = "rejected", !.callbacks = <<"error">>]
                  /\ callbacks' = <<"error">>
                  /\ EndSweep("rejected", topics, coherence_values, callbacks')
             ELSE /\ request' = [asked EXCEPT !.outcome = "accepted", !.thread = TRUE]
                  /\ callbacks' = <<>>
                  /\ spc' = "train_model_thread"
                  /\ UNCHANGED <<si, sweep_log>>
    /\ UNCHANGED <<random_state, completions, lda_impl, num_of_topics, worker_attrs, topics, coherence_values,
                   landscape, executor, futures>>
    /\ UNCHANGED <<pipeline_vars, cleanse_vars, snapshot_vars>>

\* train_model's thread: train() calls self.model_trained(iterations=...,
\* workers=4, passes=..., num_of_topics=...), but model_trained takes only
\* callback: the TypeError ends the thread, and no callback is made
train_model_thread ==
    /\ lda_impl = "LDA_logic" /\ spc = "train_model_thread"
    /\ EndSweep("thread_died", topics, coherence_values, callbacks)
    /\ UNCHANGED <<random_state, request, completions, lda_impl, num_of_topics, worker_attrs, topics,
                   coherence_values, landscape, executor, futures, callbacks, sweeps>>
    /\ UNCHANGED <<pipeline_vars, cleanse_vars, snapshot_vars>>

SweepNext ==
    \/ train_model
    \/ train_model_thread
    \/ lda_model_trained
    \/ lda_model_trained_loop
    \/ model_trained
    \/ train_enter
    \/ train_submit
    \/ lda_executor_start
    \/ _train_single_model
    \/ train_collect
    \/ train_exit

\* a slice list[:stop]: a slice of a shorter list is the whole list
Slice(list, stop) == SubSeq(list, 1, IF Len(list) < stop THEN Len(list) ELSE stop)

\* get_top_5_topic(): lda.py returns self.topics[:4], LDA_logic.py
\* self.topics[:5]
get_top_5_topic == IF lda_impl = "lda" THEN Slice(topics, 4) ELSE Slice(topics, 5)

\* the topic sweep, in both variants
SweepSpec == SweepInit /\ [][SweepNext]_vars

\* ------------------------------------------------------ the text cleanser

\* The tokens of the texts handed to the cleanser: a plain word, one word of
\* each kind the cleanser removes, words with HTML entities (once and twice
\* escaped), a word with a compatibility ligature, and whitespace.
Tokens == {"hello", "user@example.com", "http://example.com/path",
           "123e4567-e89b-12d3-a456-426614174000", "d41d8cd98f00b204e9800998ecf8427e",
           "10.0.0.1", "user&#64;example.com", "&amp;lt;", "&lt;", "<U+FB01>le", " ", "\n"}

\* a sentence with one word of each of the five kinds
SampleSentence == <<"hello", " ", "user@example.com", " ", "http://example.com/path", " ",
                    "123e4567-e89b-12d3-a456-426614174000", "\n",
                    "d41d8cd98f00b204e9800998ecf8427e", " ", "10.0.0.1", " ", "hello">>

\* a str as a token sequence: two words are always separated by whitespace
IsText(t) == \A k \in 1..(Len(t) - 1) : t[k] \in Whitespace \/ t[k + 1] \in Whitespace

Texts == {t \in SeqsUpTo(Tokens, MaxTokens) : IsText(t)} \cup {SampleSentence}

CleanseInit ==
    /\ PipelineAbsent
    /\ SweepAbsent
    /\ SnapshotAbsent
    /\ raw_text \in Texts
    /\ cleansings = <<>>

\* a call of _cleanse: on the raw text, then on what the call before returned
apply_cleanse ==
    /\ Len(cleansings) < MaxCleansings
    /\ cleansings' = Append(cleansings, _cleanse(IF cleansings = <<>> THEN raw_text
                                                 ELSE cleansings[Len(cleansings)]))
    /\ UNCHANGED raw_text
    /\ UNCHANGED <<pipeline_vars, sweep_vars, snapshot_vars>>

CleanseNext == apply_cleanse

\* the Text Cleanser as a pure function
CleanseSpec == CleanseInit /\ [][CleanseNext]_vars


\* ------------------------------------------------------ snapshot file names

\* datetime.now().strftime('%Y-%m-%d') on day number d, counted from 2024-01-01
strftime(d) == <<"2", "0", "2", "4", "-", "0", "1", "-">> \o
               (IF d + 1 < 10 THEN <<"0">> ELSE <<>>) \o IntToStr(d + 1)

\* f"processed_tickets{...}.json", f"corpus_{...}.json" (wrangler.py) and
\* f"wrangled_data_{...}.json" (classes.py)
FileName(stem, d) == [stem |-> stem, date |-> strftime(d), suffix |-> ".json"]

\* The module is imported on some day: the def statements of
\* generate_processed_tickets_json and generate_corpus_json evaluate their
\* default file names then, once.
SnapshotInit ==
    /\ PipelineAbsent
    /\ SweepAbsent
    /\ CleanseAbsent
    /\ today \in 0..MaxDays
    /\ filename_defaults = [generate_processed_tickets_json |-> FileName("processed_tickets", today),
                            generate_corpus_json |-> FileName("corpus_", today)]
    /\ snapshot_log = <<>>

\* the date changes while the process runs
midnight ==
    /\ today < MaxDays
    /\ today' = today + 1
    /\ UNCHANGED <<filename_defaults, snapshot_log>>
    /\ UNCHANGED <<pipeline_vars, sweep_vars, cleanse_vars>>

\* a snapshot write: open(filename, "w") and json.dump
Write(filename) ==
    /\ Len(snapshot_log) < MaxWrites
    /\ snapshot_log' = Append(snapshot_log, [filename |-> filename, day |-> today])
    /\ UNCHANGED <<today, filename_defaults>>
    /\ UNCHANGED <<pipeline_vars, sweep_vars, cleanse_vars>>

\* wrangler.py DataWrangler.generate_processed_tickets_json(), filename defaulted
generate_processed_tickets_json == Write(filename_defaults.generate_processed_tickets_json)

\* wrangler.py DataWrangler.generate_corpus_json(ui_download_element), as
\* create_corpus calls it: filename defaulted
generate_corpus_json == Write(filename_defaults.generate_corpus_json)

\* classes.py DataWrangler.process(): output_file named at the time of the write
process_output_file == Write(FileName("wrangled_data_", today))

SnapshotNext ==
    \/ midnight
    \/ generate_processed_tickets_json
    \/ generate_corpus_json
    \/ process_output_file

\* the naming of the snapshot files
SnapshotSpec == SnapshotInit /\ [][SnapshotNext]_vars


\* ------------------------------------------------------------------ claims

\* the size of the Ticket Store when the current (or, between runs, the last) run began
StoreAtRunStart ==
    IF pc = "idle"
    THEN (IF Len(history) >= 2 THEN history[Len(history) - 1].tickets ELSE 0)
    ELSE (IF Len(history) >= 1 THEN history[Len(history)].tickets ELSE 0)

\* the tickets that run appended
ThisRunTickets == SubSeq(wrangled_tickets, StoreAtRunStart + 1, Len(wrangled_tickets))

RECURSIVE TicketIds(_)
TicketIds(ts) == IF ts = <<>> THEN <<>> ELSE <<Head(ts).id>> \o TicketIds(Tail(ts))

\* the records of the ticket file that reshape, in file order
RECURSIVE Reshapable(_)
Reshapable(recs) ==
    IF recs = <<>> THEN <<>>
    ELSE (IF TicketParses(Head(recs)) THEN <<Head(recs)>> ELSE <<>>) \o Reshapable(Tail(recs))

\* every comment body of every ticket, in ticket order then comment order
RECURSIVE AllBodies(_)
AllBodies(ts) == IF ts = <<>> THEN <<>> ELSE Bodies(Head(ts).comments) \o AllBodies(Tail(ts))

RECURSIVE CleanseEach(_)
CleanseEach(bodies) == IF bodies = <<>> THEN <<>> ELSE <<_cleanse(Head(bodies))>> \o CleanseEach(Tail(bodies))

\* a run in which reshaping, binding and corpus assembly all succeeded
AllStagesDone(st) == st.reshape = "done" /\ st.bind = "done" /\ st.corpus = "done"

\* C1: in every run, reshaping has completed before binding begins, and
\* binding has completed before corpus assembly begins.
C1_StagesInOrder ==
    /\ stage.bind # "idle" => stage.reshape = "done"
    /\ stage.corpus # "idle" => stage.bind = "done"

\* C2: with the ticket file missing, the run fails at stage 1, binding and
\* corpus assembly are not executed afterwards, and no output file is written.
C2_MissingTicketFileAborts ==
    (~ticket_file.exists /\ runs > 0) =>
        /\ stage.bind = "idle"
        /\ stage.reshape = "failed" => stage.corpus # "running"
        /\ written = {}

\* C3: every Ticket of the Ticket Store has at least one Comment, and its first
\* Comment is the one made from the description of its own ticket record.
C3_FirstCommentFromDescription ==
    \A k \in 1..Len(wrangled_tickets) :
        LET t == wrangled_tickets[k] IN
        /\ Len(t.comments) >= 1
        /\ \E r \in Range(ticket_file.data) :
              /\ r.id = t.id
              /\ t.comments[1].body = r.description
              /\ t.comments[1].created_at = strptime(r.created_at).value

\* C3 witness: a ticket to which comment binding has appended comments
C3_TicketWithBoundComments ==
    \E k \in 1..Len(wrangled_tickets) : Len(wrangled_tickets[k].comments) > 1

\* C4: after every run on a ticket array of which k records reshape, the
\* Ticket Store holds exactly k Tickets, on every run of the same DataWrangler.
C4_StoreHoldsOneTicketPerRecord ==
    \A n \in 1..Len(history) :
        ticket_file.exists => history[n].tickets = Len(Reshapable(ticket_file.data))

\* C5: after a run that completed its three stages, the Corpus is the concatenation of every
\* Comment body (as stored, or cleansed) of every Ticket of the Ticket Store,
\* in ticket order and comment order.
C5_CorpusIsAllBodies ==
    (pc = "idle" /\ AllStagesDone(stage)) =>
        \/ corpus = Join(AllBodies(wrangled_tickets))
        \/ corpus = Join(CleanseEach(AllBodies(wrangled_tickets)))

\* C6: two runs on the unchanged ticket file and comments directory, each of
\* which completed its three stages, yield the identical Corpus, whatever the
\* order in which the directory was listed.
C6_SameCorpusOnEveryRun ==
    \A m, n \in 1..Len(history) :
        (AllStagesDone(history[m].stage) /\ AllStagesDone(history[n].stage))
            => history[m].corpus = history[n].corpus

\* C7: a record that fails to reshape is skipped and nothing else: the stage
\* does not abort, and every record that reshapes is appended to the Ticket Store.
C7_BadRecordIsSkipped ==
    (ticket_file.exists /\ stage.reshape \in {"done", "failed"}) =>
        /\ stage.reshape = "done"
        /\ TicketIds(ThisRunTickets) = TicketIds(Reshapable(ticket_file.data))

\* a comment file all of whose records can be reshaped, named for ticket id
WellFormedFileFor(f, id) ==
    /\ f.content.json_ok
    /\ \A k \in 1..Len(f.content.value) : f.content.value[k].has_body
    /\ BeforeFirst(f.name, ".") = IntToStr(id)

\* a file whose name identifies ticket id
MatchingFile(f, id) == BeforeFirst(f.name, ".") = IntToStr(id)

\* C8: a malformed comment file is skipped and nothing else: binding does not
\* fail, and the comments of every well-formed matching file are bound.
C8_MalformedFileIsSkipped ==
    (stage.bind \in {"done", "failed"} /\ NameNotes \notin FileNames
        /\ (impl = "wrangler" => comments_dir.set)) =>
        /\ stage.bind = "done"
        /\ \A k \in 1..Len(wrangled_tickets) : \A f \in comments_files :
              WellFormedFileFor(f, wrangled_tickets[k].id) =>
                  \A m \in 1..Len(f.content.value) :
                      \E c \in Range(wrangled_tickets[k].comments) : c.id = f.content.value[m].id

\* C9: a Ticket with no matching comment file keeps exactly its first comment,
\* and binding tickets none of which has a matching file succeeds, whatever
\* other file names the directory holds.
C9_NoMatchingFileIsNoError ==
    (impl = "wrangler" => comments_dir.set) =>
        /\ \A k \in 1..Len(wrangled_tickets) :
              (\A f \in comments_files : ~MatchingFile(f, wrangled_tickets[k].id))
                  => Len(wrangled_tickets[k].comments) = 1
        /\ (/\ stage.bind \in {"done", "failed"}
            /\ \A k \in 1..Len(wrangled_tickets) : \A f \in comments_files :
                  ~MatchingFile(f, wrangled_tickets[k].id))
              => stage.bind = "done"


\* <<1, 2, ..., n>>
UpTo(n) == [k \in 1..n |-> k]

\* C10: a sweep that was requested for the topic counts 1..N and succeeded
\* leaves a result of exactly N entries, the topic counts 1, 2, ..., N.
C10_SweepLeavesRequestedCounts ==
    \A n \in 1..Len(sweep_log) :
        sweep_log[n].result \in {"True", "success"} =>
            /\ sweep_log[n].topics = UpTo(num_of_topics)
            /\ Len(sweep_log[n].coherence_values) = num_of_topics

\* C11: the trainings of one LDA_logic.py sweep run concurrently in the pool
\* and may end in any order; the recorded topic counts are in ascending
\* order all the same.
C11_RecordedInAscendingOrder ==
    lda_impl = "LDA_logic" =>
        \A a, b \in 1..Len(topics) : a < b => topics[a] < topics[b]

\* two results were recorded although a training with a larger topic count
\* ended before one with a smaller topic count
C11_RecordedAfterOutOfOrderCompletion ==
    /\ lda_impl = "LDA_logic"
    /\ Len(topics) >= 2
    /\ \E a, b \in 1..Len(completions) : a < b /\ completions[a] > completions[b]

\* the topic counts the n-th finished sweep recorded: a sweep only appends,
\* so they are what follows the entries the sweep before it left behind
RecordedBy(n) ==
    LET before == IF n = 1 THEN 0 ELSE Len(sweep_log[n - 1].topics)
    IN SubSeq(sweep_log[n].topics, before + 1, Len(sweep_log[n].topics))

\* C12: the result is created fresh for each training run: what a finished
\* sweep leaves in topics and coherence_values is only what that sweep
\* recorded, and it stays as it is while no sweep runs.
C12_ResultFreshEachRun ==
    /\ \A n \in 1..Len(sweep_log) :
          /\ sweep_log[n].topics = RecordedBy(n)
          /\ Len(sweep_log[n].coherence_values) <= Len(RecordedBy(n))
    /\ (spc = "idle" /\ Len(sweep_log) > 0) =>
          /\ topics = sweep_log[Len(sweep_log)].topics
          /\ coherence_values = sweep_log[Len(sweep_log)].coherence_values

\* C13: a sweep in which one training or scoring raised is reported as
\* failed, and it leaves no entry of its own in topics or coherence_values.
C13_FailedSweepLeavesNothing ==
    /\ (spc = "idle" /\ \E k \in 1..Len(futures) : futures[k] = "raised") =>
          sweep_log[Len(sweep_log)].result = "error"
    /\ \A n \in 1..Len(sweep_log) :
          sweep_log[n].result \in {"False", "error"} =>
              /\ RecordedBy(n) = <<>>
              /\ Len(sweep_log[n].coherence_values) =
                     (IF n = 1 THEN 0 ELSE Len(sweep_log[n - 1].coherence_values))

\* the value of a train_model argument when it is a positive integer, else 0
PositiveInt(x) == IF IsInt(x.v) THEN ParseInt(x.v) ELSE 0

\* C14: a train_model request is accepted if and only if iterations and
\* passes are both positive integers with iterations < 200 and passes < 20;
\* a rejected request reports a validation error and starts no thread.
C14_ValidationBounds ==
    request.outcome # "none" =>
        LET ok == /\ PositiveInt(request.iterations) \in 1..199
                  /\ PositiveInt(request.passes) \in 1..19
        IN /\ ok => request.outcome = "accepted"
           /\ ~ok => request.outcome = "rejected"
           /\ request.outcome = "rejected" =>
                 request.callbacks = <<"error">> /\ ~request.thread

\* a step taken by a thread of WranglerWorker.executor: a task that is
\* running moves on
PoolWorkerStep == \E t \in DOMAIN task : task[t].st = "running" /\ task'[t] # task[t]

\* C15: pool workers never mutate shared state: no step of a pool thread
\* changes the Ticket Store list or the comments of a ticket in it.
C15_WorkersLeaveStoreAlone ==
    [][PoolWorkerStep => wrangled_tickets' = wrangled_tickets]_vars

\* a token that no cleansed text holds: a line break, or a word the cleanser removes
Uncleansed(w) ==
    \/ w \in {"\n", "\r"}
    \/ email(w) \/ url(w) \/ uuid(w) \/ md5(w) \/ ipv4(w)

\* C16: every body that contributes to the Corpus has been through the
\* cleanser, so the Corpus of a finished assembly holds no line break and
\* no word that the cleanser removes.
C16_CorpusHoldsOnlyCleansedText ==
    stage.corpus = "done" => \A k \in 1..Len(corpus) : ~Uncleansed(corpus[k])

\* the ids of the comment records a file holds
CommentIdsOf(f) == {f.content.value[k].id : k \in 1..Len(f.content.value)}

\* C17: the comments bound to a ticket, those after its first, come only
\* from files whose name encodes exactly the ticket's id.
C17_BoundOnlyFromExactIdFile ==
    \A n \in 1..Len(wrangled_tickets) :
        LET t == wrangled_tickets[n] IN
        \A k \in 2..Len(t.comments) :
            \E f \in comments_files : MatchingFile(f, t.id) /\ t.comments[k].id \in CommentIdsOf(f)

\* the whitespace-separated words of a text
WordsOf(text) == LET IsWord(t) == t \notin Whitespace IN SelectSeq(text, IsWord)

\* a word of one of the five kinds the cleanser is to remove
OfFiveKinds(w) == email(w) \/ url(w) \/ uuid(w) \/ md5(w) \/ ipv4(w)

\* a sequence of words without those of the five kinds
WithoutFiveKinds(words) == LET Kept(w) == ~OfFiveKinds(w) IN SelectSeq(words, Kept)

\* the words as they read once HTML entities are unescaped and the text is
\* NFKC-normalized
Decoded(words) == [k \in 1..Len(words) |-> normalize(unescape(words[k]))]

\* C18 as stated: _cleanse returns the words of its input, in order, without
\* exactly the words that are an email address, a URL, a UUID, an MD5 digest
\* or an IPv4 address, every other word unchanged.
C18_RemovesExactlyFiveKinds ==
    Len(cleansings) >= 1 => WordsOf(cleansings[1]) = WithoutFiveKinds(WordsOf(raw_text))

\* C18, amended: _cleanse returns, joined by single spaces, the words of its
\* HTML-unescaped and NFKC-normalized input, in order, without exactly the
\* words that then are an email address, a URL, a UUID, an MD5 digest or an
\* IPv4 address; for the sentence with one word of each kind the word count
\* drops by exactly 5.
C18_RemovesFiveKindsOfDecodedWords ==
    Len(cleansings) >= 1 =>
        /\ WordsOf(cleansings[1]) = WithoutFiveKinds(Decoded(WordsOf(raw_text)))
        /\ cleansings[1] = Join(Singletons(WordsOf(cleansings[1])))
        /\ raw_text = SampleSentence =>
              Len(WordsOf(cleansings[1])) = Len(WordsOf(raw_text)) - 5

\* the sentence with one word of each kind has been cleansed
C18_SampleSentenceCleansed ==
    raw_text = SampleSentence /\ Len(cleansings) >= 1

\* C19: cleansing is idempotent: cleansing what _cleanse returned returns
\* it unchanged.
C19_CleanseIdempotent ==
    Len(cleansings) >= 2 => cleansings[2] = cleansings[1]

\* C20: no raw exception crosses to the caller: every run of process /
\* run_async ends by returning, never by raising.
C20_NoRunEndsByRaising ==
    \A n \in 1..Len(history) : history[n].result # "RuntimeError"

\* sequence s is the beginning of sequence t
IsPrefix(s, t) == Len(s) <= Len(t) /\ SubSeq(t, 1, Len(s)) = s

\* C21: tickets and comments are append-only: no step removes a ticket from
\* the store or moves it, a ticket's comments only grow at the end, and what
\* a ticket or a comment already holds does not change.
C21_AppendOnly ==
    [][/\ Len(wrangled_tickets) <= Len(wrangled_tickets')
       /\ \A k \in 1..Len(wrangled_tickets) :
             /\ IsPrefix(wrangled_tickets[k].comments, wrangled_tickets'[k].comments)
             /\ [wrangled_tickets'[k] EXCEPT !.comments = <<>>]
                   = [wrangled_tickets[k] EXCEPT !.comments = <<>>]]_vars

\* the store holds two different tickets, and comments were bound to one of them
C21_TwoTicketsOneWithBoundComments ==
    /\ Len(wrangled_tickets) >= 2
    /\ wrangled_tickets[1].id # wrangled_tickets[2].id
    /\ \E k \in 1..Len(wrangled_tickets) : Len(wrangled_tickets[k].comments) >= 2

\* C22: every snapshot write targets a file name that carries the date on
\* which the write is performed.
C22_FileNameCarriesDateOfWrite ==
    \A n \in 1..Len(snapshot_log) :
        snapshot_log[n].filename.date = strftime(snapshot_log[n].day)

\* C23: every model fit uses a seed generated for that call, drawn from
\* the full unsigned 32-bit range 0..2^32-1: the seed is drawn and not
\* written in the code, it lies in the range, and the generator draws from
\* all of the range, its lowest value 0 included.
C23_SeedDrawnFromFullRange ==
    random_state.fitted =>
        /\ random_state.drawn
        /\ U32Leq(U32(0, 0), random_state.seed) /\ U32Leq(random_state.seed, U32(65535, 65535))
        /\ _generate_random_state = SeedSamples

\* how many times x occurs among the entries of list at the positions in P
CountAt(list, P, x) == Cardinality({k \in P : list[k] = x})

\* C24: when at least five sweep results are recorded, get_top_5_topic
\* returns exactly five entries, and they are five recorded topic counts
\* of highest coherence: no recorded entry left out scores higher than one
\* returned.
C24_TopFiveAreFiveBest ==
    Len(topics) >= 5 =>
        /\ Len(get_top_5_topic) = 5
        /\ \E P \in SUBSET (1..Len(topics)) :
              /\ Cardinality(P) = 5
              /\ \A x \in Range(topics) :
                    CountAt(topics, P, x) = CountAt(get_top_5_topic, 1..Len(get_top_5_topic), x)
              /\ \A j \in P : \A k \in (1..Len(topics)) \ P :
                    get_coherence(landscape, topics[j]) >= get_coherence(landscape, topics[k])

\* the terminal callbacks among the callbacks made: callback(success=True)
\* and callback(error=...); callback(progress=...) is not terminal
TerminalCallbacks(made) == SelectSeqBy(made, {"success", "error"})

\* the ways a train_model call ends: _validate_inputs raised, the request
\* was rejected, or the thread that train_model started has ended
TrainModelEnds == {"raised", "rejected", "thread_died"}

\* C25: every train_model call that has run to its end made exactly one
\* terminal callback, never both and never neither: error when validation
\* failed, and success only with the results of all requested topic counts
\* collected.
C25_ExactlyOneTerminalCallback ==
    \A n \in 1..Len(sweep_log) :
        sweep_log[n].result \in TrainModelEnds =>
            /\ Len(TerminalCallbacks(sweep_log[n].callbacks)) = 1
            /\ sweep_log[n].result = "rejected" => sweep_log[n].callbacks = <<"error">>
            /\ "success" \in Range(sweep_log[n].callbacks) =>
                   \A i \in 1..num_of_topics : i \in Range(sweep_log[n].topics)

\* C26: when tickets_reshaped returns False, the Ticket Store is what it was before
\* the call: no ticket of the failed batch remains in it.
C26_FailedReshapeLeavesStore ==
    stage.reshape = "failed" => ThisRunTickets = <<>>

\* how many of the comments bound to ticket t, those after its first, carry id
BoundWithId(t, id) == Cardinality({k \in 2..Len(t.comments) : t.comments[k].id = id})

\* how many records of the comment files carry id
RecordsWithId(id) ==
    LET Here(f) == Cardinality({k \in 1..Len(f.content.value) : f.content.value[k].id = id})
        RECURSIVE Sum(_)
        Sum(F) == IF F = {} THEN 0 ELSE LET f == CHOOSE x \in F : TRUE IN Here(f) + Sum(F \ {f})
    IN Sum({f \in comments_files : f.content.json_ok})

\* C27: comment binding is idempotent: binding again on a Ticket Store
\* whose comments are already bound adds nothing, so a ticket never holds a
\* comment record more often than the comment files hold it.
C27_BindingIdempotent ==
    \A n \in 1..Len(wrangled_tickets) :
        \A k \in 2..Len(wrangled_tickets[n].comments) :
            LET id == wrangled_tickets[n].comments[k].id IN
            BoundWithId(wrangled_tickets[n], id) <= RecordsWithId(id)

\* the ways a model_trained call on an LDAModelWorker ends
ModelTrainedEnds == {"success", "error"}

\* C28: a worker that has completed one sweep can run another: when a
\* model_trained call ends on a worker whose previous sweep succeeded, it
\* has submitted one training per topic count rather than failed at
\* submission.
C28_WorkerRunsAnotherSweep ==
    (/\ lda_impl = "LDA_logic" /\ spc = "idle" /\ Len(sweep_log) >= 2
     /\ sweep_log[Len(sweep_log) - 1].result = "success"
     /\ sweep_log[Len(sweep_log)].result \in ModelTrainedEnds) =>
        Len(futures) = num_of_topics

\* C29: run_async always terminates: with the 2-thread pool, comments_bound
\* running as a pool task that submits one _bind_comments task per ticket to
\* the same pool and blocks on its result never deadlocks, whatever the
\* number of tickets and whether reshaping succeeds or fails: every run that
\* has started comes to its end.
C29_RunAsyncTerminates == (pc # "idle") ~> (pc = "idle")

\* a run has ended after comments_bound bound the comments of two tickets,
\* one _bind_comments task each
C29_RunEndedAfterNestedSubmissions ==
    /\ impl = "wrangler" /\ pc = "idle" /\ history # <<>>
    /\ stage.bind = "done" /\ Len(wrangled_tickets) >= 2

\* C30: in every reachable state, during a sweep and after a failed sweep
\* too, topics and coherence_values have the same length, and the i-th
\* coherence value is the score of the model trained for the i-th recorded
\* topic count.
\* (The scores are those of the scorer in use; in LDA_logic.py it is drawn
\* anew by each sweep, so its scores are compared during the first one.)
C30_TopicsAndCoherenceAligned ==
    /\ Len(topics) = Len(coherence_values)
    /\ (lda_impl = "lda" \/ sweeps <= 1) =>
          \A i \in 1..Len(coherence_values) :
              i <= Len(topics) /\ coherence_values[i] = get_coherence(landscape, topics[i])

====
